---- MODULE Spec2Model ----
(***************************************************************************)
(* Query-to-section resolution pipeline of app.py: preprocess_query,       *)
(* correct_spelling, match_with_synonyms, answer_question_nlp and the      *)
(* handle_message coroutine that calls it.                                 *)
(*                                                                         *)
(* A Python str is a sequence of one-character strings, so that `in`       *)
(* (substring containment), lower(), split() and join() are computed       *)
(* character by character.  An answer text is a sequence of non-empty text *)
(* chunks; the empty answer is the empty sequence.                         *)
(***************************************************************************)
EXTENDS Integers, Sequences, FiniteSets, TLC

VARIABLES sections, synonyms, qa_mapping, citizenship_mapping, loaded,
          correction_none, handlers, pc, user_query, nlp_ok,
          processed_query, corrected_query, section_key, answer, caught,
          escaped, reply

tables == <<sections, synonyms, qa_mapping, citizenship_mapping>>

vars == <<sections, synonyms, qa_mapping, citizenship_mapping, loaded,
          correction_none, handlers, pc, user_query, nlp_ok,
          processed_query, corrected_query, section_key, answer, caught,
          escaped, reply>>

---------------------------------------------------------------------------
(* Bounds *)

\* number of fragments a user message is made of, at most
MaxQueryLen == 2

\* number of handle_message coroutines in flight in the concurrent runs
NumHandlers == 2

---------------------------------------------------------------------------
(* Words *)

w_language == <<"l","a","n","g","u","a","g","e">>
w_culture == <<"c","u","l","t","u","r","e">>
w_implementation == <<"i","m","p","l","e","m","e","n","t","a","t","i","o","n">>
w_rights == <<"r","i","g","h","t","s">>
w_right == <<"r","i","g","h","t">>
w_authority == <<"a","u","t","h","o","r","i","t","y">>
w_court == <<"c","o","u","r","t">>
w_bill == <<"b","i","l","l">>
w_citizenship == <<"c","i","t","i","z","e","n","s","h","i","p">>
w_birth == <<"b","i","r","t","h">>
w_by == <<"b","y">>
w_parliament == <<"p","a","r","l","i","a","m","e","n","t">>
w_senate == <<"s","e","n","a","t","e">>
w_registration == <<"r","e","g","i","s","t","r","a","t","i","o","n">>
w_citzenship == <<"c","i","t","z","e","n","s","h","i","p">>
w_asdkjasd == <<"a","s","d","k","j","a","s","d">>
w_Language == <<"L","a","n","g","u","a","g","e">>
w_Citizenship == <<"C","i","t","i","z","e","n","s","h","i","p">>
w_Senate == <<"S","e","n","a","t","e">>
w_Birth == <<"B","i","r","t","h">>

Space == " "

Punctuation == {"?"}

\* words joined by single spaces (str.join of " ")
RECURSIVE Join(_)
Join(ws) ==
    IF ws = <<>> THEN <<>>
    ELSE IF Len(ws) = 1 THEN ws[1]
    ELSE ws[1] \o <<Space>> \o Join(Tail(ws))

---------------------------------------------------------------------------
(* str operations *)

UpperToLower == [c \in {"L", "C", "S", "B"} |->
                    CASE c = "L" -> "l" [] c = "C" -> "c"
                      [] c = "S" -> "s" [] c = "B" -> "b"]

\* str.lower()
Lower(s) == [i \in 1..Len(s) |->
                IF s[i] \in DOMAIN UpperToLower THEN UpperToLower[s[i]] ELSE s[i]]

\* Python `term in text` for two str
Contains(term, text) ==
    \E i \in 0..(Len(text) - Len(term)) : SubSeq(text, i + 1, i + Len(term)) = term

\* str.split(): the maximal runs of non-whitespace characters, in order
RECURSIVE SplitFrom(_, _, _)
SplitFrom(s, i, cur) ==
    IF i > Len(s) THEN (IF cur = <<>> THEN <<>> ELSE <<cur>>)
    ELSE IF s[i] = Space
         THEN (IF cur = <<>> THEN <<>> ELSE <<cur>>) \o SplitFrom(s, i + 1, <<>>)
         ELSE SplitFrom(s, i + 1, Append(cur, s[i]))

Split(s) == SplitFrom(s, 1, <<>>)

---------------------------------------------------------------------------
(* The linguistic model `nlp` (spaCy) and the dictionary `spell`          *)
(* (pyspellchecker), as far as the vocabulary of the model goes           *)

\* nlp(query): tokens on whitespace, each punctuation mark a token of its own
RECURSIVE TokenizeFrom(_, _, _)
TokenizeFrom(s, i, cur) ==
    LET flush == IF cur = <<>> THEN <<>> ELSE <<cur>>
    IN  IF i > Len(s) THEN flush
        ELSE IF s[i] = Space THEN flush \o TokenizeFrom(s, i + 1, <<>>)
        ELSE IF s[i] \in Punctuation
             THEN flush \o << <<s[i]>> >> \o TokenizeFrom(s, i + 1, <<>>)
        ELSE TokenizeFrom(s, i + 1, Append(cur, s[i]))

Tokenize(s) == TokenizeFrom(s, 1, <<>>)

StopWords == {w_by}

\* token.is_stop
is_stop(token) == Lower(token) \in StopWords

\* token.is_punct
is_punct(token) == Len(token) = 1 /\ token[1] \in Punctuation

LemmaTable == [w \in {w_rights} |-> w_right]

\* token.lemma_
lemma_(token) ==
    IF Lower(token) \in DOMAIN LemmaTable THEN LemmaTable[Lower(token)] ELSE token

\* the word-frequency dictionary of spell
Dictionary == {w_language, w_culture, w_implementation, w_rights, w_right,
               w_authority, w_court, w_bill, w_citizenship, w_birth, w_by,
               w_parliament, w_senate, w_registration}

\* the words outside the dictionary that have a correction candidate
Candidate == [w \in {w_citzenship, w_rights \o <<"?">>} |->
                 IF w = w_citzenship THEN w_citizenship ELSE w_rights]

\* spell.unknown(words)
spell_unknown(words) == {words[i] : i \in 1..Len(words)} \ Dictionary

\* spell.correction(word): the candidate; without one, None or the word
\* itself, depending on the release of the library (none_release)
spell_correction(word, none_release) ==
    IF word \in DOMAIN Candidate THEN [none |-> FALSE, word |-> Candidate[word]]
    ELSE IF word \in Dictionary THEN [none |-> FALSE, word |-> word]
    ELSE [none |-> none_release, word |-> word]

---------------------------------------------------------------------------
(* preprocess_query, correct_spelling *)

RECURSIVE KeptLemmas(_)
KeptLemmas(doc) ==
    IF doc = <<>> THEN <<>>
    ELSE (IF ~is_stop(Head(doc)) /\ ~is_punct(Head(doc))
          THEN <<Lower(lemma_(Head(doc)))>> ELSE <<>>) \o KeptLemmas(Tail(doc))

\* ok = FALSE: nlp(query) raised, the except branch returns query.lower()
preprocess_query(query, ok) ==
    IF ok THEN Join(KeptLemmas(Tokenize(query))) ELSE Lower(query)

correct_spelling(processed, none_release) ==
    LET words == Split(processed)
        misspelled == spell_unknown(words)
        corrected == [i \in 1..Len(words) |->
                         IF words[i] \in misspelled
                         THEN spell_correction(words[i], none_release)
                         ELSE [none |-> FALSE, word |-> words[i]]]
    IN  \* " ".join(corrected) raises TypeError on a None item: the except
        \* branch returns processed_query
        IF \E i \in 1..Len(words) : corrected[i].none
        THEN processed
        ELSE Join([i \in 1..Len(words) |-> corrected[i].word])

---------------------------------------------------------------------------
(* Knowledge tables.  A dict whose order matters (qa_mapping,             *)
(* citizenship_mapping, prioritized_phrases) is a sequence in insertion   *)
(* order; sections and synonyms are functions on their keys.              *)

k_language_culture == Join(<<w_language, w_culture>>)
k_implementation_right == Join(<<w_implementation, w_right>>)
k_authority_court_bill_right == Join(<<w_authority, w_court, w_bill, w_right>>)
k_citizenship_birth == Join(<<w_citizenship, w_birth>>)
k_citizenship_registration == Join(<<w_citizenship, w_registration>>)

\* the answer text stored under a section key
TextOf(key) == <<"section: ">> \o key

EmptyDict == [k \in {} |-> <<>>]

SecFull == [k \in {k_language_culture, k_implementation_right,
                   k_authority_court_bill_right, k_citizenship_birth,
                   k_citizenship_registration, w_parliament} |-> TextOf(k)]

SecPartial == [k \in {k_implementation_right, k_authority_court_bill_right,
                      w_citizenship, w_parliament} |-> TextOf(k)]

SecBlank == [k \in DOMAIN SecFull |->
                IF k = k_language_culture THEN <<>> ELSE TextOf(k)]

\* a synonyms value: a JSON array of strings, or a value that cannot be
\* iterated (null, a number)
SynOk == [k \in {w_parliament} |-> [iterable |-> TRUE, terms |-> <<w_Senate>>]]

SynBad == [k \in {w_parliament, w_court} |->
              IF k = w_court THEN [iterable |-> FALSE, terms |-> <<>>]
              ELSE SynOk[k]]

QaA == <<w_parliament, w_senate, w_court>>

QaB == <<w_Senate, w_parliament>>

CmA == << <<Join(<<w_citizenship, w_by, w_birth>>), k_citizenship_registration>>,
          <<w_Birth, k_citizenship_birth>> >>

Tables(sec, syn, qa, cm) ==
    [sections |-> sec, synonyms |-> syn, qa_mapping |-> qa, citizenship_mapping |-> cm]

\* what load_json_file can return for the four files
TableChoices ==
    { Tables(SecFull, SynOk, QaA, CmA),
      Tables(EmptyDict, EmptyDict, <<>>, <<>>),
      Tables(SecPartial, SynBad, QaA, CmA),
      Tables(SecBlank, SynOk, QaA, <<>>),
      Tables(SecPartial, SynOk, QaB, <<>>) }

ConcurrentTableChoices ==
    { Tables(SecFull, SynOk, QaA, CmA),
      Tables(SecPartial, SynBad, QaA, CmA) }

prioritized_phrases ==
    << [terms |-> <<w_language, w_culture>>, key |-> k_language_culture],
       [terms |-> <<w_implementation, w_rights>>, key |-> k_implementation_right],
       [terms |-> <<w_authority, w_court, w_bill, w_right>>,
        key |-> k_authority_court_bill_right] >>

---------------------------------------------------------------------------
(* match_with_synonyms *)

\* the value of section_key: found = FALSE is None; rule names the rule
\* that returned ("skipped": match_with_synonyms was not called); raised =
\* an exception left the function; synonyms is the synonyms dict as the
\* call leaves it
Key(found, key, rule, raised, syn) ==
    [found |-> found, key |-> key, rule |-> rule, raised |-> raised, synonyms |-> syn]

\* for subtopic, section_key in citizenship_mapping.items(): the index of
\* the first label that is in the corrected text, from i on; 0 without one
RECURSIVE subtopic_rule(_, _, _)
subtopic_rule(cm, i, corrected) ==
    IF i > Len(cm) THEN 0
    ELSE IF Contains(Lower(cm[i][1]), corrected) THEN i
         ELSE subtopic_rule(cm, i + 1, corrected)

\* synonyms.setdefault(key, []) in the place of synonyms.get(key, []): a
\* key the dict does not have is added to it
synonyms_setdefault(syn, key) ==
    [value |-> IF key \in DOMAIN syn THEN syn[key]
               ELSE [iterable |-> TRUE, terms |-> <<>>],
     dict |-> IF key \in DOMAIN syn THEN syn
              ELSE [k \in DOMAIN syn \cup {key} |->
                       IF k = key THEN [iterable |-> TRUE, terms |-> <<>>]
                       ELSE syn[k]]]

\* synonyms.get(key, []): the value, and the dict, which get() leaves alone
synonyms_get(syn, key) ==
    [value |-> IF key \in DOMAIN syn THEN syn[key]
               ELSE [iterable |-> TRUE, terms |-> <<>>],
     dict |-> syn]

\* [key.lower()] + [s.lower() for s in value]
search_terms(key, value) ==
    <<Lower(key)>> \o [j \in 1..Len(value.terms) |-> Lower(value.terms[j])]

\* `return key` after the loop in the place of `return None`: the last key
\* of qa_mapping is returned when no term is in the text
RECURSIVE synonym_rule_leaks_key(_, _, _, _)
synonym_rule_leaks_key(qa, syn, i, corrected) ==
    IF i > Len(qa)
    THEN (IF Len(qa) = 0 THEN Key(FALSE, <<>>, "none", FALSE, syn)
          ELSE Key(TRUE, qa[Len(qa)], "synonym", FALSE, syn))
    ELSE LET got == synonyms_get(syn, qa[i])
             terms == search_terms(qa[i], got.value)
         IN  IF ~got.value.iterable THEN Key(FALSE, <<>>, "none", TRUE, got.dict)
             ELSE IF \E j \in 1..Len(terms) : Contains(terms[j], corrected)
                  THEN Key(TRUE, qa[i], "synonym", FALSE, got.dict)
                  ELSE synonym_rule_leaks_key(qa, got.dict, i + 1, corrected)

\* for key in qa_mapping: the first key with a search term in the corrected
\* text, from i on; a value that cannot be iterated raises TypeError when
\* its key is reached
RECURSIVE synonym_rule(_, _, _, _)
synonym_rule(qa, syn, i, corrected) ==
    IF i > Len(qa) THEN Key(FALSE, <<>>, "none", FALSE, syn)
    ELSE LET got == synonyms_get(syn, qa[i])
             terms == search_terms(qa[i], got.value)
         IN  IF ~got.value.iterable THEN Key(FALSE, <<>>, "none", TRUE, got.dict)
             ELSE IF \E j \in 1..Len(terms) : Contains(terms[j], corrected)
                  THEN Key(TRUE, qa[i], "synonym", FALSE, got.dict)
                  ELSE synonym_rule(qa, got.dict, i + 1, corrected)

\* the "citizenship" test moved above the loop over the subtopic labels
match_rules_general_first(corrected, qa, syn, cm) ==
    IF Contains(w_citizenship, corrected)
    THEN Key(TRUE, w_citizenship, "general", FALSE, syn)
    ELSE IF subtopic_rule(cm, 1, corrected) # 0
         THEN Key(TRUE, cm[subtopic_rule(cm, 1, corrected)][2], "subtopic", FALSE, syn)
         ELSE synonym_rule(qa, syn, 1, corrected)

\* the loop over qa_mapping moved above the "citizenship" test
match_rules_synonym_before_general(corrected, qa, syn, cm) ==
    IF subtopic_rule(cm, 1, corrected) # 0
    THEN Key(TRUE, cm[subtopic_rule(cm, 1, corrected)][2], "subtopic", FALSE, syn)
    ELSE IF synonym_rule(qa, syn, 1, corrected).found
            \/ synonym_rule(qa, syn, 1, corrected).raised
         THEN synonym_rule(qa, syn, 1, corrected)
         ELSE IF Contains(w_citizenship, corrected)
              THEN Key(TRUE, w_citizenship, "general", FALSE, syn)
              ELSE synonym_rule(qa, syn, 1, corrected)

\* the rules of match_with_synonyms, on the corrected text
match_rules(corrected, qa, syn, cm) ==
    IF subtopic_rule(cm, 1, corrected) # 0
    THEN Key(TRUE, cm[subtopic_rule(cm, 1, corrected)][2], "subtopic", FALSE, syn)
    ELSE IF Contains(w_citizenship, corrected)
         THEN Key(TRUE, w_citizenship, "general", FALSE, syn)
         ELSE synonym_rule(qa, syn, 1, corrected)

match_with_synonyms(query, qa, syn, cm, ok, none_release) ==
    match_rules(correct_spelling(preprocess_query(query, ok), none_release), qa, syn, cm)

---------------------------------------------------------------------------
(* answer_question_nlp *)

NoAnswerText ==
    <<"Sorry, I couldn't find an answer to your question. Try asking about specific topics like:\n- Citizenship requirements\n- Parliamentary authority\n- Constitutional amendments">>

ApologyText == <<"Sorry, I encountered an error processing your question.">>

HandlerErrorText == <<"Sorry, I encountered an error. Please try again later.">>

\* str(list(citizenship_mapping.keys())) from label i on
RECURSIVE ListItems(_, _)
ListItems(cm, i) ==
    IF i > Len(cm) THEN <<>>
    ELSE (IF i > 1 THEN <<",", " ">> ELSE <<>>)
         \o <<"'">> \o cm[i][1] \o <<"'">> \o ListItems(cm, i + 1)

ListingText(cm) ==
    <<"It seems you're interested in citizenship. Available subtopics include: ">>
    \o <<"[">> \o ListItems(cm, 1) \o <<"]">> \o <<".">>

\* all(term in query_lower for term in terms)
all_terms(terms, query_lower) ==
    \A j \in 1..Len(terms) : Contains(terms[j], query_lower)

\* the rules taken in reverse: the last satisfied rule with its key in
\* sections, from i on; 0 without one
RECURSIVE phrase_check_last_wins(_, _, _)
phrase_check_last_wins(query_lower, sec, i) ==
    IF i > Len(prioritized_phrases) THEN 0
    ELSE IF phrase_check_last_wins(query_lower, sec, i + 1) # 0
         THEN phrase_check_last_wins(query_lower, sec, i + 1)
         ELSE IF all_terms(prioritized_phrases[i].terms, query_lower)
                 /\ prioritized_phrases[i].key \in DOMAIN sec
              THEN i
              ELSE 0

\* for terms, key in prioritized_phrases.items(): the index of the first
\* rule, from i on, that is satisfied and whose key is in sections; 0
\* without one
RECURSIVE phrase_check(_, _, _)
phrase_check(query_lower, sec, i) ==
    IF i > Len(prioritized_phrases) THEN 0
    ELSE IF all_terms(prioritized_phrases[i].terms, query_lower)
            /\ prioritized_phrases[i].key \in DOMAIN sec
         THEN i
         ELSE phrase_check(query_lower, sec, i + 1)

\* the elif branch left out: "citizenship" gets the "no answer" text
resolve_key_no_listing(k, sec, cm) ==
    IF k.found /\ k.key \in DOMAIN sec THEN sec[k.key] ELSE NoAnswerText

\* lines 143-153: from section_key to the answer text
resolve_key(k, sec, cm) ==
    IF k.found /\ k.key \in DOMAIN sec THEN sec[k.key]
    ELSE IF k.found /\ k.key = w_citizenship THEN ListingText(cm)
    ELSE NoAnswerText

\* the result of a call: value is what the caller gets, caught = the except
\* branch ran, escaped = an exception reached the caller; processed,
\* corrected and section_key are the locals of match_with_synonyms (matched
\* = FALSE: the phrase check returned before it was called)
Result(val, exc_caught, exc_escaped, matcher_ran, proc, corr, k) ==
    [value |-> val, caught |-> exc_caught, escaped |-> exc_escaped,
     matched |-> matcher_ran, processed |-> proc, corrected |-> corr,
     section_key |-> k]

\* the phrase check run on the preprocessed text in the place of
\* query.lower()
answer_body_phrase_on_processed(query, sec, syn, qa, cm, ok, none_release) ==
    LET processed == preprocess_query(query, ok)
        hit == phrase_check(processed, sec, 1)
        corrected == correct_spelling(processed, none_release)
        k == match_with_synonyms(query, qa, syn, cm, ok, none_release)
    IN  IF hit # 0
        THEN Result(sec[prioritized_phrases[hit].key], FALSE, FALSE, FALSE,
                    <<>>, <<>>, Key(FALSE, <<>>, "skipped", FALSE, syn))
        ELSE IF k.raised
             THEN Result(<<>>, FALSE, TRUE, TRUE, processed, corrected, k)
             ELSE Result(resolve_key(k, sec, cm), FALSE, FALSE, TRUE,
                         processed, corrected, k)

\* the body of the try block
answer_body(query, sec, syn, qa, cm, ok, none_release) ==
    LET hit == phrase_check(Lower(query), sec, 1)
        processed == preprocess_query(query, ok)
        corrected == correct_spelling(processed, none_release)
        k == match_with_synonyms(query, qa, syn, cm, ok, none_release)
    IN  IF hit # 0
        THEN Result(sec[prioritized_phrases[hit].key], FALSE, FALSE, FALSE,
                    <<>>, <<>>, Key(FALSE, <<>>, "skipped", FALSE, syn))
        ELSE IF k.raised
             THEN Result(<<>>, FALSE, TRUE, TRUE, processed, corrected, k)
             ELSE Result(resolve_key(k, sec, cm), FALSE, FALSE, TRUE,
                         processed, corrected, k)

\* the function without its try/except
answer_question_nlp_no_except(query, sec, syn, qa, cm, ok, none_release) ==
    answer_body(query, sec, syn, qa, cm, ok, none_release)

\* try: ... except Exception: return the apology
answer_question_nlp(query, sec, syn, qa, cm, ok, none_release) ==
    LET r == answer_body(query, sec, syn, qa, cm, ok, none_release)
    IN  IF r.escaped
        THEN [r EXCEPT !.value = ApologyText, !.caught = TRUE, !.escaped = FALSE]
        ELSE r

---------------------------------------------------------------------------
(* Messages *)

Fragments ==
    { Join(<<w_Language, w_culture>>),
      Join(<<w_implementation, w_rights>>),
      Join(<<w_authority, w_court, w_bill>>),
      w_rights \o <<"?">>,
      Join(<<w_citizenship, w_by, w_birth>>),
      w_Citizenship,
      w_citzenship,
      w_asdkjasd,
      w_senate,
      w_parliament }

\* the texts made of n fragments
RECURSIVE QueriesOfLen(_)
QueriesOfLen(n) ==
    IF n = 0 THEN {<<>>}
    ELSE {IF q = <<>> THEN f ELSE q \o <<Space>> \o f :
             q \in QueriesOfLen(n - 1), f \in Fragments}

Queries == UNION {QueriesOfLen(n) : n \in 0..MaxQueryLen}

ConcurrentQueries ==
    {<<>>, w_Citizenship, w_asdkjasd, w_senate, Join(<<w_Language, w_culture>>)}

\* the texts a message can carry in the run at hand
Universe == IF Cardinality(handlers) = 1 THEN Queries ELSE ConcurrentQueries

---------------------------------------------------------------------------
(* State machine *)

NoReply == [sent |-> FALSE, text |-> <<>>]

NoCall == Key(FALSE, <<>>, "skipped", FALSE, EmptyDict)

Startup(choices, hs) ==
    /\ \E t \in choices :
          /\ sections = t.sections
          /\ synonyms = t.synonyms
          /\ qa_mapping = t.qa_mapping
          /\ citizenship_mapping = t.citizenship_mapping
          /\ loaded = t
    /\ correction_none \in BOOLEAN
    /\ handlers = hs
    /\ pc = [h \in hs |-> "idle"]
    /\ user_query = [h \in hs |-> <<>>]
    /\ nlp_ok = [h \in hs |-> TRUE]
    /\ processed_query = [h \in hs |-> <<>>]
    /\ corrected_query = [h \in hs |-> <<>>]
    /\ section_key = [h \in hs |-> NoCall]
    /\ answer = [h \in hs |-> <<>>]
    /\ caught = [h \in hs |-> FALSE]
    /\ escaped = [h \in hs |-> FALSE]
    /\ reply = [h \in hs |-> NoReply]

\* updates are processed one at a time
Init == Startup(TableChoices, {1})

\* updates are processed concurrently
InitConcurrent == Startup(ConcurrentTableChoices, 1..NumHandlers)

\* an update arrives for handle_message
Receive(h) ==
    /\ pc[h] = "idle"
    /\ \E text \in Universe : user_query' = [user_query EXCEPT ![h] = text]
    /\ pc' = [pc EXCEPT ![h] = "received"]
    /\ UNCHANGED <<tables, loaded, correction_none, handlers, nlp_ok,
                   processed_query, corrected_query, section_key, answer,
                   caught, escaped, reply>>

\* if not update.message or not update.message.text: return
RejectEmpty(h) ==
    /\ pc[h] = "received"
    /\ user_query[h] = <<>>
    /\ pc' = [pc EXCEPT ![h] = "done"]
    /\ UNCHANGED <<tables, loaded, correction_none, handlers, user_query, nlp_ok,
                   processed_query, corrected_query, section_key, answer,
                   caught, escaped, reply>>

\* await context.bot.send_chat_action(..., action="typing")
SendTyping(h) ==
    /\ pc[h] = "received"
    /\ user_query[h] # <<>>
    /\ pc' = [pc EXCEPT ![h] = "typing"]
    /\ UNCHANGED <<tables, loaded, correction_none, handlers, user_query, nlp_ok,
                   processed_query, corrected_query, section_key, answer,
                   caught, escaped, reply>>

\* one call answer_question_nlp(query), with nlp(query) working or raising
Call(h, query, ok) ==
    LET r == answer_question_nlp(query, sections, synonyms, qa_mapping,
                                 citizenship_mapping, ok, correction_none)
    IN  /\ nlp_ok' = [nlp_ok EXCEPT ![h] = ok]
        /\ processed_query' = [processed_query EXCEPT ![h] = r.processed]
        /\ corrected_query' = [corrected_query EXCEPT ![h] = r.corrected]
        /\ section_key' = [section_key EXCEPT ![h] = r.section_key]
        /\ answer' = [answer EXCEPT ![h] = r.value]
        /\ caught' = [caught EXCEPT ![h] = r.caught]
        /\ escaped' = [escaped EXCEPT ![h] = r.escaped]
        /\ synonyms' = r.section_key.synonyms
        /\ UNCHANGED <<sections, qa_mapping, citizenship_mapping, loaded,
                       correction_none, handlers, reply>>

\* answer = answer_question_nlp(user_query)
Answer(h) ==
    /\ pc[h] = "typing"
    /\ \E ok \in BOOLEAN : Call(h, user_query[h], ok)
    /\ pc' = [pc EXCEPT ![h] = "answered"]
    /\ UNCHANGED user_query

\* await update.message.reply_text(answer); an exception out of the call,
\* or the transport refusing an empty text, ends in the except branch,
\* which replies the handler's own apology
Reply(h) ==
    /\ pc[h] = "answered"
    /\ reply' = [reply EXCEPT ![h] =
                    [sent |-> TRUE,
                     text |-> IF escaped[h] \/ answer[h] = <<>>
                              THEN HandlerErrorText ELSE answer[h]]]
    /\ pc' = [pc EXCEPT ![h] = "done"]
    /\ UNCHANGED <<tables, loaded, correction_none, handlers, user_query, nlp_ok,
                   processed_query, corrected_query, section_key, answer,
                   caught, escaped>>

\* answer_question_nlp called on its own, with any str
CallAnswer(h) ==
    /\ pc[h] = "idle"
    /\ \E query \in Universe, ok \in BOOLEAN :
          /\ user_query' = [user_query EXCEPT ![h] = query]
          /\ Call(h, query, ok)
    /\ pc' = [pc EXCEPT ![h] = "returned"]

\* the coroutine, or the call, is over: nothing of it is kept
Finish(h) ==
    /\ pc[h] \in {"done", "returned"}
    /\ pc' = [pc EXCEPT ![h] = "idle"]
    /\ user_query' = [user_query EXCEPT ![h] = <<>>]
    /\ nlp_ok' = [nlp_ok EXCEPT ![h] = TRUE]
    /\ processed_query' = [processed_query EXCEPT ![h] = <<>>]
    /\ corrected_query' = [corrected_query EXCEPT ![h] = <<>>]
    /\ section_key' = [section_key EXCEPT ![h] = NoCall]
    /\ answer' = [answer EXCEPT ![h] = <<>>]
    /\ caught' = [caught EXCEPT ![h] = FALSE]
    /\ escaped' = [escaped EXCEPT ![h] = FALSE]
    /\ reply' = [reply EXCEPT ![h] = NoReply]
    /\ UNCHANGED <<tables, loaded, correction_none, handlers>>

Next ==
    \/ \E h \in handlers : Receive(h)
    \/ \E h \in handlers : RejectEmpty(h)
    \/ \E h \in handlers : SendTyping(h)
    \/ \E h \in handlers : Answer(h)
    \/ \E h \in handlers : Reply(h)
    \/ \E h \in handlers : CallAnswer(h)
    \/ \E h \in handlers : Finish(h)

Spec == Init /\ [][Next]_vars

SpecConcurrent == InitConcurrent /\ [][Next]_vars

---------------------------------------------------------------------------
(* Vocabulary of the properties *)

\* answer_question_nlp has returned in h and its result is at hand
Returned(h) == pc[h] \in {"answered", "returned"}

\* match_with_synonyms was called in h
Matched(h) == Returned(h) /\ section_key[h].rule # "skipped"

Rules == 1..Len(prioritized_phrases)

\* the lowercased raw text of h holds every term of rule i
Satisfied(i, h) == all_terms(prioritized_phrases[i].terms, Lower(user_query[h]))

\* rule i is satisfied in h and its target key is a key of sections
Usable(i, h) == Satisfied(i, h) /\ prioritized_phrases[i].key \in DOMAIN sections

Labels == 1..Len(citizenship_mapping)

\* the lowercased label i is in the text
LabelIn(i, text) == Contains(Lower(citizenship_mapping[i][1]), text)

\* the lowercased key i of qa_mapping, or one of its lowercased synonyms,
\* is in the text
TermIn(i, text) ==
    \/ Contains(Lower(qa_mapping[i]), text)
    \/ /\ qa_mapping[i] \in DOMAIN synonyms
       /\ \E j \in 1..Len(synonyms[qa_mapping[i]].terms) :
             Contains(Lower(synonyms[qa_mapping[i]].terms[j]), text)

---------------------------------------------------------------------------
(* C1 *)

\* C1, as stated: whenever the lowercased raw text of a query holds every
\* term of a prioritized-phrase rule, the answer is sections[the rule's
\* key], whatever the tables hold.
C1_AnyRuleAnswers ==
    \A h \in handlers : \A i \in Rules :
        (Returned(h) /\ Satisfied(i, h))
            => /\ prioritized_phrases[i].key \in DOMAIN sections
               /\ answer[h] = sections[prioritized_phrases[i].key]

\* C1, amended: whenever the lowercased raw text holds every term of a rule
\* whose key is a key of sections, and no earlier-declared rule is
\* satisfied with its key in sections, the answer is sections[that key] and
\* match_with_synonyms is not called.
C1_FirstUsableRuleAnswers ==
    \A h \in handlers : \A i \in Rules :
        (Returned(h) /\ Usable(i, h) /\ (\A j \in 1..(i - 1) : ~Usable(j, h)))
            => /\ answer[h] = sections[prioritized_phrases[i].key]
               /\ section_key[h].rule = "skipped"
               /\ ~caught[h]

\* a rule answered a query in which the matcher had a rule to fire as well
C1_Witness ==
    \E h \in handlers : \E i \in Rules :
        /\ Returned(h) /\ Usable(i, h)
        /\ Contains(w_citizenship, Lower(user_query[h]))
        /\ answer[h] = sections[prioritized_phrases[i].key]

---------------------------------------------------------------------------
(* C2 *)

\* C2, as stated: when the text as typed holds, case-insensitively, a
\* subtopic label (the earliest-declared one it holds) and no
\* prioritized-phrase rule is satisfied, the key resolved is the key mapped
\* by that label.
C2_LabelInRawText ==
    \A h \in handlers : \A i \in Labels :
        (Matched(h) /\ ~section_key[h].raised
         /\ LabelIn(i, Lower(user_query[h]))
         /\ (\A j \in 1..(i - 1) : ~LabelIn(j, Lower(user_query[h])))
         /\ (\A r \in Rules : ~Satisfied(r, h)))
            => /\ section_key[h].found
               /\ section_key[h].key = citizenship_mapping[i][2]

\* C2, amended: when the corrected text (the output of preprocess_query and
\* correct_spelling) holds a lowercased subtopic label, the key resolved is
\* the key mapped by the earliest-declared such label.
C2_FirstLabelInCorrectedText ==
    \A h \in handlers : \A i \in Labels :
        (Matched(h)
         /\ LabelIn(i, corrected_query[h])
         /\ (\A j \in 1..(i - 1) : ~LabelIn(j, corrected_query[h])))
            => /\ section_key[h].found
               /\ section_key[h].key = citizenship_mapping[i][2]
               /\ ~section_key[h].raised

\* the text as typed holds the first label, the corrected text does not,
\* and the second label decided
C2_Witness ==
    \E h \in handlers :
        /\ Matched(h) /\ Len(citizenship_mapping) = 2
        /\ LabelIn(1, Lower(user_query[h]))
        /\ ~LabelIn(1, corrected_query[h])
        /\ LabelIn(2, corrected_query[h])
        /\ section_key[h].key = citizenship_mapping[2][2]

---------------------------------------------------------------------------
(* C3 *)

ListingPrefix ==
    "It seems you're interested in citizenship. Available subtopics include: "

\* the answer is the generated message and names every label
ListsEveryLabel(text) ==
    /\ Len(text) > 0
    /\ text[1] = ListingPrefix
    /\ \A i \in Labels :
          Contains(<<"'">> \o citizenship_mapping[i][1] \o <<"'">>, text)

\* C3, as stated: when the query holds "citizenship", the subtopic rule
\* does not fire and no prioritized-phrase rule is satisfied, the answer is
\* the message listing every subtopic label, whatever sections holds.
C3_ListingWhateverSections ==
    \A h \in handlers :
        (Matched(h)
         /\ Contains(w_citizenship, user_query[h])
         /\ Contains(w_citizenship, corrected_query[h])
         /\ (\A i \in Labels : ~LabelIn(i, corrected_query[h]))
         /\ (\A r \in Rules : ~Satisfied(r, h)))
            => ListsEveryLabel(answer[h])

\* C3, amended: when the corrected text holds "citizenship" and no
\* lowercased subtopic label, and no prioritized-phrase rule is satisfied,
\* the answer is the message listing every subtopic label if sections has
\* no "citizenship" key, and sections["citizenship"] if it has.
C3_ListingUnlessSectionKey ==
    \A h \in handlers :
        (Matched(h)
         /\ Contains(w_citizenship, corrected_query[h])
         /\ (\A i \in Labels : ~LabelIn(i, corrected_query[h]))
         /\ (\A r \in Rules : ~Satisfied(r, h)))
            => IF w_citizenship \in DOMAIN sections
               THEN answer[h] = sections[w_citizenship]
               ELSE ListsEveryLabel(answer[h])

\* the listing was returned for a mapping that has labels to list
C3_Witness ==
    \E h \in handlers :
        /\ Matched(h) /\ Len(citizenship_mapping) > 0
        /\ section_key[h].rule = "general"
        /\ w_citizenship \notin DOMAIN sections
        /\ ListsEveryLabel(answer[h])

---------------------------------------------------------------------------
(* C4 *)

\* C4: no call of answer_question_nlp lets an exception reach its caller,
\* and a call in which match_with_synonyms raised returns the fixed
\* "error processing your question" apology.
C4_NeverRaises ==
    \A h \in handlers :
        Returned(h) =>
            /\ ~escaped[h]
            /\ (section_key[h].raised => caught[h])
            /\ (caught[h] => answer[h] = ApologyText)

\* an exception was raised in the matcher and the apology returned
C4_Witness ==
    \E h \in handlers :
        Returned(h) /\ section_key[h].raised /\ answer[h] = ApologyText

---------------------------------------------------------------------------
(* C5 *)

\* C5, as stated: the value answer_question_nlp returns, which
\* handle_message passes to reply_text, has length greater than zero.
C5_AnswerNonEmpty ==
    \A h \in handlers : (Returned(h) /\ ~escaped[h]) => Len(answer[h]) > 0

---------------------------------------------------------------------------
(* C6 *)

\* C6: when no prioritized-phrase rule is satisfied and match_with_synonyms
\* returns None (no subtopic label, no "citizenship", no qa_mapping key and
\* no synonym is in the corrected text), the answer is exactly the fixed
\* "no answer found" text.
C6_NoMatchText ==
    \A h \in handlers :
        (Matched(h) /\ ~section_key[h].raised
         /\ (\A r \in Rules : ~Satisfied(r, h))
         /\ (\A i \in Labels : ~LabelIn(i, corrected_query[h]))
         /\ ~Contains(w_citizenship, corrected_query[h])
         /\ (\A i \in 1..Len(qa_mapping) : ~TermIn(i, corrected_query[h])))
            => answer[h] = NoAnswerText

\* no rule fired although the tables have rules to fire
C6_Witness ==
    \E h \in handlers :
        /\ Matched(h) /\ ~section_key[h].raised
        /\ Len(qa_mapping) > 0 /\ Len(citizenship_mapping) > 0
        /\ user_query[h] # <<>>
        /\ (\A r \in Rules : ~Satisfied(r, h))
        /\ ~section_key[h].found
        /\ answer[h] = NoAnswerText

---------------------------------------------------------------------------
(* C7 *)

\* C7: match_with_synonyms returns the result of the first rule that fires
\* in the order subtopic labels (declared order), "citizenship", keys of
\* qa_mapping with their synonyms (declared order): a label in the
\* corrected text decides before anything else, and the earliest-declared
\* one; "citizenship" decides when no label is in it; a key of qa_mapping is
\* returned by the synonym rule only when neither is, and it is the
\* earliest-declared key with a term in the text; None is returned only
\* when nothing fires.
C7_FirstRuleWins ==
    \A h \in handlers :
        (Matched(h) /\ ~section_key[h].raised) =>
            LET c == corrected_query[h]
                k == section_key[h]
                anyLabel == \E i \in Labels : LabelIn(i, c)
                general == Contains(w_citizenship, c)
                anyTerm == \E i \in 1..Len(qa_mapping) : TermIn(i, c)
            IN  /\ anyLabel =>
                      /\ k.rule = "subtopic"
                      /\ \E i \in Labels :
                            /\ LabelIn(i, c)
                            /\ \A j \in 1..(i - 1) : ~LabelIn(j, c)
                            /\ k.key = citizenship_mapping[i][2]
                /\ (~anyLabel /\ general) =>
                      (k.rule = "general" /\ k.key = w_citizenship)
                /\ (k.rule = "synonym") =>
                      /\ ~anyLabel /\ ~general
                      /\ \E i \in 1..Len(qa_mapping) :
                            /\ k.key = qa_mapping[i]
                            /\ TermIn(i, c)
                            /\ \A j \in 1..(i - 1) : ~TermIn(j, c)
                /\ (~anyLabel /\ ~general /\ anyTerm) => k.rule = "synonym"
                /\ (~k.found) <=> (~anyLabel /\ ~general /\ ~anyTerm)

\* two keys of qa_mapping had a term in the corrected text, the first one
\* by a synonym only, and the first key was returned
C7_Witness ==
    \E h \in handlers :
        /\ Matched(h) /\ Len(qa_mapping) >= 2
        /\ section_key[h].rule = "synonym"
        /\ section_key[h].key = qa_mapping[1]
        /\ ~Contains(Lower(qa_mapping[1]), corrected_query[h])
        /\ TermIn(2, corrected_query[h])

---------------------------------------------------------------------------
(* C8 *)

\* C8, as stated: when more than one prioritized-phrase rule is satisfied,
\* the earliest-declared satisfied rule decides: the text of a later rule
\* is not returned, whether or not the key of the earliest one is in
\* sections.
C8_EarliestSatisfiedDecides ==
    \A h \in handlers : \A i \in Rules : \A j \in Rules :
        (Returned(h) /\ i < j /\ Satisfied(i, h) /\ Satisfied(j, h)
         /\ prioritized_phrases[j].key \in DOMAIN sections)
            => answer[h] # sections[prioritized_phrases[j].key]

\* C8, amended: when more than one prioritized-phrase rule is satisfied,
\* the earliest-declared satisfied rule whose key is in sections decides:
\* its text is returned, and the text of a rule declared after it is not.
C8_EarliestUsableDecides ==
    \A h \in handlers : \A i \in Rules :
        (Returned(h) /\ Usable(i, h)
         /\ (\E j \in Rules : j # i /\ Satisfied(j, h))
         /\ (\A e \in 1..(i - 1) : ~Usable(e, h)))
            => /\ answer[h] = sections[prioritized_phrases[i].key]
               /\ \A j \in Rules :
                     (i < j /\ prioritized_phrases[j].key \in DOMAIN sections)
                         => answer[h] # sections[prioritized_phrases[j].key]

\* two rules were satisfied, the key of the earlier one was not in
\* sections, and the text of the later one was returned
C8_Witness ==
    \E h \in handlers : \E e \in Rules, i \in Rules :
        /\ Returned(h) /\ e < i
        /\ Satisfied(e, h) /\ ~Usable(e, h)
        /\ Usable(i, h)
        /\ answer[h] = sections[prioritized_phrases[i].key]

---------------------------------------------------------------------------
(* C9 *)

\* C9, as stated: correct_spelling keeps the tokens position by position:
\* as many tokens out as in, token i unchanged if it is in the dictionary
\* or has no correction candidate, and the candidate otherwise.
C9_TokenByToken ==
    \A h \in handlers :
        Matched(h) =>
            LET input == Split(processed_query[h])
                output == Split(corrected_query[h])
            IN  /\ Len(output) = Len(input)
                /\ \A i \in 1..Len(input) :
                      output[i] = IF input[i] \in Dictionary
                                     \/ input[i] \notin DOMAIN Candidate
                                  THEN input[i]
                                  ELSE Candidate[input[i]]

---------------------------------------------------------------------------
(* C10 *)

\* C10: no step changes sections, synonyms, qa_mapping or
\* citizenship_mapping, and whatever calls came before or run alongside,
\* the result of a call is the one the tables loaded at startup give for
\* its query.
C10_Stateless ==
    /\ [][/\ sections' = sections
          /\ synonyms' = synonyms
          /\ qa_mapping' = qa_mapping
          /\ citizenship_mapping' = citizenship_mapping]_vars
    /\ [](\A h \in handlers :
             Returned(h) =>
                 answer[h] = answer_question_nlp(
                                 user_query[h], loaded.sections, loaded.synonyms,
                                 loaded.qa_mapping, loaded.citizenship_mapping,
                                 nlp_ok[h], correction_none).value)

\* two calls with different queries have returned side by side, one of
\* them after looking up keys that synonyms does not have
C10_Witness ==
    \E h \in handlers, g \in handlers :
        /\ h # g /\ Matched(h) /\ Returned(g)
        /\ user_query[h] # user_query[g]
        /\ ~section_key[h].found /\ ~section_key[h].raised
        /\ \E i \in 1..Len(qa_mapping) : qa_mapping[i] \notin DOMAIN synonyms

====
